---- MODULE Spec2Model ----
(***************************************************************************)
(* Beyond Compare MCP server: the two front ends (the MCP tools of         *)
(* server.py and the HTTP handler of standalone_server.py), the shared     *)
(* BeyondCompareManager (_find_beyond_compare, _run_command) and the       *)
(* child process each operation drives.                                    *)
(*                                                                         *)
(* A call is split at its only suspension point, subprocess.run: the       *)
(* handler action runs the code up to the spawn, ChildExit / ChildTimeout  *)
(* run the rest of the handler.  Python strings built with f-strings are   *)
(* sequences of fragments (the literal pieces and the interpolated         *)
(* values, in order).                                                      *)
(***************************************************************************)
EXTENDS Integers, Sequences, FiniteSets, TLC

VARIABLES
    pathCmds,       \* command names shutil.which resolves (the PATH)
    files,          \* paths for which os.path.exists is true
    bc_executable,  \* BeyondCompareManager.bc_executable
    now,            \* int(asyncio.get_event_loop().time())
    call,           \* the current (or last) invocation: front end, operation, arguments
    pc,             \* "idle", "running" (inside subprocess.run), "done"
    cmd,            \* argument vector of the child of this call, << >> if none
    child,          \* the child process of this call: state and exit code
    run,            \* how _run_command ended for this call
    result,         \* the value the operation returned
    peer,           \* a second server process on the same machine: its call,
                    \* pc, cmd, child, run and result
    backups         \* the calls of utils.create_backup so far: arguments and
                    \* returned value of each

vars ==
    <<pathCmds, files, bc_executable, now, call, pc, cmd, child, run, result, peer, backups>>

\* Python's None, where a str is expected
None == "None"

-----------------------------------------------------------------------------
(* Bounds of the model *)

\* the loop clock takes the values 0..MaxTime
MaxTime == 1

\* the tool leaves at most MaxReports report files behind
MaxReports == 1

\* create_backup is called at most MaxBackups times
MaxBackups == 3

-----------------------------------------------------------------------------
(* The environment the calls are made in *)

\* existing paths, one with a space, one with shell metacharacters
LeftOK == "/data/my docs/left"
RightOK == "/data/right;$(id)&"
LeftMissing == "/nonexistent/file1.txt"
RightMissing == "/nonexistent/file2.txt"

InputFiles == {LeftOK, RightOK}
LeftPaths == {LeftOK, LeftMissing}
RightPaths == {RightOK, RightMissing}

\* exit codes of the child: the table's codes, unclassified codes below 100,
\* the error band, and a child killed by a signal (negative in subprocess)
ExitCodes == {-9, 0, 1, 2, 5, 11, 12, 13, 14, 99, 100, 101}

Outputs == {[stdout |-> "", stderr |-> ""],
            [stdout |-> "tool output", stderr |-> "tool error"]}

-----------------------------------------------------------------------------
(* BeyondCompareManager *)

possible_paths ==
    << "/Applications/Beyond Compare.app/Contents/MacOS/bcomp",
       "/usr/local/bin/bcomp",
       "C:\\Program Files\\Beyond Compare 5\\BCompare.exe",
       "C:\\Program Files\\Beyond Compare 4\\BCompare.exe",
       "C:\\Program Files (x86)\\Beyond Compare 5\\BCompare.exe",
       "C:\\Program Files (x86)\\Beyond Compare 4\\BCompare.exe",
       "/usr/bin/bcompare",
       "/usr/local/bin/bcompare" >>

path_commands == << "bcomp", "bcompare", "BCompare.exe" >>

\* first element of seq s satisfying membership in set S, None if there is none
RECURSIVE FirstIn(_, _)
FirstIn(s, S) ==
    IF s = << >> THEN None
    ELSE IF Head(s) \in S THEN Head(s)
    ELSE FirstIn(Tail(s), S)

\* _find_beyond_compare: the PATH names first, then the install paths
find_beyond_compare(which, exists) ==
    IF FirstIn(path_commands, which) # None
    THEN FirstIn(path_commands, which)
    ELSE FirstIn(possible_paths, exists)

\* " ".join(cmd)
RECURSIVE JoinSpace(_)
JoinSpace(s) ==
    IF s = << >> THEN ""
    ELSE IF Len(s) = 1 THEN s[1]
    ELSE s[1] \o " " \o JoinSpace(Tail(s))

\* the default of _run_command's timeout parameter, which no caller overrides
DefaultTimeout == 30

NoRun ==
    [state |-> "not_entered", error |-> << >>, success |-> FALSE, returncode |-> 0,
     stdout |-> "", stderr |-> "", command |-> ""]

Raised(msg) == [NoRun EXCEPT !.state = "raised", !.error = msg]

\* success conflated with "identical"
Success_identical(rc) == rc = 0

\* result["success"]
Success(rc) == rc < 100

\* the child started by a fixed command name instead of the located one
RunCommandCmd_fixed_name(args) == <<"bcompare">> \o args

\* the command built as one command line
RunCommandCmd_joined(args) == <<bc_executable \o " " \o JoinSpace(args)>>

\* _run_command up to subprocess.run: the guard on bc_executable, then cmd
RunCommandCmd(args) == <<bc_executable>> \o args

\* _run_command when subprocess.run returned a CompletedProcess
RunCommandReturn(c, rc, out, err) ==
    [state |-> "returned", error |-> << >>, success |-> Success(rc), returncode |-> rc,
     stdout |-> out, stderr |-> err, command |-> JoinSpace(c)]

\* a timeout reported as a failed run instead of raised
RunCommandTimeout_dict(timeout) ==
    [state |-> "returned", error |-> << >>, success |-> FALSE, returncode |-> -1,
     stdout |-> "", stderr |-> "timed out", command |-> ""]

\* _run_command when subprocess.run raised TimeoutExpired
RunCommandTimeout(timeout) ==
    Raised(<<"Command timed out after ", ToString(timeout), " seconds">>)

\* _run_command when subprocess.run raised anything else (the spawn failed)
RunCommandSpawnError == Raised(<<"Failed to execute command: ", "[Errno] spawn failed">>)

\* _run_command when bc_executable is None
RunCommandNotFound ==
    Raised(<<"Beyond Compare executable not found. Please install Beyond Compare.">>)

\* the child process: "none", "running", "exited" (with its exit code), "killed";
\* timeout is the timeout subprocess.run waits with while the child runs,
\* << >> for timeout=None (wait for ever); shell is subprocess.run's shell
\* argument (its default, False: the list is the child's argument vector)
NoChild == [state |-> "none", code |-> 0, timeout |-> << >>, shell |-> FALSE]

\* subprocess.run called without a timeout
ChildRunning_no_timeout ==
    [state |-> "running", code |-> 0, timeout |-> << >>, shell |-> FALSE]

\* subprocess.run(cmd, ..., timeout=timeout), timeout being the default of
\* _run_command's parameter in every call
ChildRunning ==
    [state |-> "running", code |-> 0, timeout |-> <<DefaultTimeout>>, shell |-> FALSE]

ChildExited(rc) == [state |-> "exited", code |-> rc, timeout |-> << >>, shell |-> FALSE]

\* subprocess.run(cmd, timeout=...) on expiry: the child is killed and waited
\* for before TimeoutExpired is raised
ChildAfterTimeout == [state |-> "killed", code |-> -9, timeout |-> << >>, shell |-> FALSE]

-----------------------------------------------------------------------------
(* Arguments and return values of the operations *)

\* the keyword defaults of the tools' signatures
Defaults ==
    [left |-> LeftOK, right |-> RightOK, output_format |-> "text",
     ignore_case |-> FALSE, ignore_whitespace |-> FALSE, recursive |-> TRUE,
     direction |-> "left-to-right", delete_orphans |-> FALSE, preview_only |-> TRUE,
     report_type |-> "html", output_file |-> None]

OutputFormats == {"text", "html", "bogus"}
Directions == {"left-to-right", "right-to-left", "bidirectional", "invalid-value"}
ReportTypes == {"html", "xml", "csv", "text", "pdf"}
OutputFiles == {None, "/out/report.html"}

CompareFilesParams ==
    {[Defaults EXCEPT !.left = l, !.right = r, !.output_format = f,
                      !.ignore_case = ic, !.ignore_whitespace = iw] :
        l \in LeftPaths, r \in RightPaths, f \in OutputFormats,
        ic \in BOOLEAN, iw \in BOOLEAN}

CompareFoldersParams ==
    {[Defaults EXCEPT !.left = l, !.right = r, !.recursive = rec] :
        l \in LeftPaths, r \in RightPaths, rec \in BOOLEAN}

SyncFoldersParams ==
    {[Defaults EXCEPT !.left = l, !.right = r, !.direction = d,
                      !.delete_orphans = del, !.preview_only = pv] :
        l \in LeftPaths, r \in RightPaths, d \in Directions,
        del \in BOOLEAN, pv \in BOOLEAN}

GenerateReportParams ==
    {[Defaults EXCEPT !.left = l, !.right = r, !.report_type = t, !.output_file = f] :
        l \in LeftPaths, r \in RightPaths, t \in ReportTypes, f \in OutputFiles}

\* a str returned by an MCP tool
Str(text) == [key |-> "str", text |-> text]
\* {"result": ...} and {"error": ...} returned by an HTTP operation
Res(text) == [key |-> "result", text |-> text]
Err(text) == [key |-> "error", text |-> text]
\* send_error(500, ...)
Http500(text) == [key |-> "http500", text |-> text]
NoResult == [key |-> "none", text |-> << >>]

\* what the code before _run_command decided: an early return, or the args
Return(res) == [ret |-> TRUE, result |-> res, args |-> << >>, output_file |-> None]
Args(a, f) == [ret |-> FALSE, result |-> NoResult, args |-> a, output_file |-> f]

-----------------------------------------------------------------------------
(* server.py: the MCP tools *)

\* compare_files, the argument vector
mcp_compare_files_args(p) ==
    LET a1 == IF p.ignore_case THEN <<"-ignorecase">> ELSE << >>
        a2 == IF p.ignore_whitespace THEN a1 \o <<"-ignoreunimportant">> ELSE a1
        a3 == a2 \o <<p.left, p.right>>
    IN  IF p.output_format = "text" THEN <<"-qc">> \o a3 ELSE a3

\* compare_files up to _run_command
mcp_compare_files_pre(p) ==
    IF p.left \notin files
    THEN Return(Str(<<"Error: Left file '", p.left, "' does not exist">>))
    ELSE IF p.right \notin files
    THEN Return(Str(<<"Error: Right file '", p.right, "' does not exist">>))
    ELSE Args(mcp_compare_files_args(p), None)

\* compare_files taking only exit code 0 for identical files
mcp_compare_files_classify_zero_only(r) ==
    IF r.success
    THEN IF r.returncode = 0
         THEN Str(<<"Files are identical">>)
         ELSE IF r.stdout # ""
              THEN Str(<<"Files differ:\n", r.stdout>>)
              ELSE Str(<<"Files have differences">>)
    ELSE Str(<<"Comparison failed: ", r.stderr>>)

\* compare_files, the classification of the completed run
mcp_compare_files_classify(r) ==
    IF r.success
    THEN IF r.returncode \in {0, 1, 2}
         THEN Str(<<"Files are identical">>)
         ELSE IF r.stdout # ""
              THEN Str(<<"Files differ:\n", r.stdout>>)
              ELSE Str(<<"Files have differences">>)
    ELSE Str(<<"Comparison failed: ", r.stderr>>)

\* compare_files without its except clause: the exception leaves the tool
mcp_compare_files_post_no_except(c, r) ==
    IF r.state = "raised"
    THEN [key |-> "unhandled", text |-> r.error]
    ELSE mcp_compare_files_classify(r)

\* compare_files after _run_command, with its except clause
mcp_compare_files_post(c, r) ==
    IF r.state = "raised"
    THEN Str(<<"Error comparing files: ">> \o r.error)
    ELSE mcp_compare_files_classify(r)

\* compare_folders up to _run_command
mcp_compare_folders_pre(p) ==
    IF p.left \notin files
    THEN Return(Str(<<"Error: Left folder '", p.left, "' does not exist">>))
    ELSE IF p.right \notin files
    THEN Return(Str(<<"Error: Right folder '", p.right, "' does not exist">>))
    ELSE Args(<<"-qc">> \o (IF p.recursive THEN <<"-recurse">> ELSE << >>)
                        \o <<p.left, p.right>>, None)

\* compare_folders after _run_command
mcp_compare_folders_post(c, r) ==
    IF r.state = "raised"
    THEN Str(<<"Error comparing folders: ">> \o r.error)
    ELSE IF r.success
    THEN Str(<<"Folder comparison result:\n",
               IF r.stdout # "" THEN r.stdout ELSE "Folders compared successfully">>)
    ELSE Str(<<"Folder comparison failed: ", r.stderr>>)

\* sync_folders: is the direction one of the three branches
mcp_sync_direction_ok(d) == d \in {"left-to-right", "right-to-left", "bidirectional"}

\* sync_folders, the sync-mode fragment of a valid direction
mcp_sync_mode(d) ==
    IF d = "left-to-right" THEN "update:left->right"
    ELSE IF d = "right-to-left" THEN "update:right->left"
    ELSE "update:left<->right"

\* sync_folders validating the source folder only
mcp_sync_folders_pre_source_only(p) ==
    IF p.left \notin files
    THEN Return(Str(<<"Error: Source folder '", p.left, "' does not exist">>))
    ELSE Args(<<"-sync", mcp_sync_mode(p.direction), p.left, p.right>>, None)

\* sync_folders up to _run_command
mcp_sync_folders_pre(p) ==
    IF p.left \notin files
    THEN Return(Str(<<"Error: Source folder '", p.left, "' does not exist">>))
    ELSE IF p.right \notin files
    THEN Return(Str(<<"Error: Target folder '", p.right, "' does not exist">>))
    ELSE IF ~mcp_sync_direction_ok(p.direction)
    THEN Return(Str(<<"Error: Invalid direction '", p.direction,
                      "'. Use 'left-to-right', 'right-to-left', or 'bidirectional'">>))
    ELSE Args((IF p.preview_only THEN <<"-silent">> ELSE << >>)
              \o <<"-sync", mcp_sync_mode(p.direction)>>
              \o (IF p.delete_orphans
                  THEN <<"create:left->right", "delete:left->right">> ELSE << >>)
              \o <<p.left, p.right>>, None)

\* sync_folders after _run_command
mcp_sync_folders_post(c, r) ==
    LET action == IF c.params.preview_only THEN "Preview of synchronization"
                  ELSE "Synchronization completed"
    IN  IF r.state = "raised"
        THEN Str(<<"Error synchronizing folders: ">> \o r.error)
        ELSE IF r.success
        THEN Str(<<action, ":\n",
                   IF r.stdout # "" THEN r.stdout ELSE action \o " successfully">>)
        ELSE Str(<<"Synchronization failed: ", r.stderr>>)

\* generate_report: the generated output filename
mcp_report_name(timestamp, report_type) ==
    "bc_report_" \o ToString(timestamp) \o "." \o report_type

\* generate_report: is the report type one of the four branches
mcp_report_type_ok(t) == t \in {"html", "xml", "csv", "text"}

\* generate_report with the report file put after the two paths
mcp_generate_report_pre_paths_first(p) ==
    LET output_file == IF p.output_file = None
                       THEN mcp_report_name(now, p.report_type)
                       ELSE p.output_file
    IN  IF p.left \notin files
        THEN Return(Str(<<"Error: Left path '", p.left, "' does not exist">>))
        ELSE IF p.right \notin files
        THEN Return(Str(<<"Error: Right path '", p.right, "' does not exist">>))
        ELSE IF ~mcp_report_type_ok(p.report_type)
        THEN Return(Str(<<"Error: Invalid report type '", p.report_type,
                          "'. Use 'html', 'xml', 'csv', or 'text'">>))
        ELSE Args(<<"-silent", "-report", p.report_type, p.left, p.right,
                    "-reportfile", output_file>>, output_file)

\* generate_report up to _run_command
mcp_generate_report_pre(p) ==
    LET output_file == IF p.output_file = None
                       THEN mcp_report_name(now, p.report_type)
                       ELSE p.output_file
    IN  IF p.left \notin files
        THEN Return(Str(<<"Error: Left path '", p.left, "' does not exist">>))
        ELSE IF p.right \notin files
        THEN Return(Str(<<"Error: Right path '", p.right, "' does not exist">>))
        ELSE IF ~mcp_report_type_ok(p.report_type)
        THEN Return(Str(<<"Error: Invalid report type '", p.report_type,
                          "'. Use 'html', 'xml', 'csv', or 'text'">>))
        ELSE Args(<<"-silent", "-report", p.report_type, "-reportfile", output_file,
                    p.left, p.right>>, output_file)

\* generate_report after _run_command
mcp_generate_report_post(c, r) ==
    IF r.state = "raised"
    THEN Str(<<"Error generating report: ">> \o r.error)
    ELSE IF r.success
    THEN Str(<<"Report generated successfully: ", c.output_file>>)
    ELSE Str(<<"Report generation failed: ", r.stderr>>)

\* get_beyond_compare_info up to _run_command
mcp_get_info_pre ==
    IF bc_executable = None
    THEN Return(Str(<<"Beyond Compare is not installed or not found in PATH">>))
    ELSE Args(<<"-help">>, None)

\* get_beyond_compare_info after _run_command; every modelled stdout is
\* shorter than 500 characters, so stdout[:500] is stdout
mcp_get_info_post(c, r) ==
    IF r.state = "raised"
    THEN Str(<<"Error getting Beyond Compare info: ">> \o r.error)
    ELSE Str(<<"Beyond Compare executable: ", bc_executable, "\n">>
             \o (IF r.success
                 THEN <<"Version information:\n", r.stdout, "...">>
                 ELSE <<"Could not retrieve version information">>))

\* list_file_formats
mcp_list_file_formats == Str(<<"\nBeyond Compare supports comparison of: ...">>)

-----------------------------------------------------------------------------
(* standalone_server.py: the operations of BeyondCompareHandler *)

\* compare_files up to _run_command; **kwargs is not read
http_compare_files_pre(p) ==
    IF p.left \notin files
    THEN Return(Err(<<"Left file '", p.left, "' does not exist">>))
    ELSE IF p.right \notin files
    THEN Return(Err(<<"Right file '", p.right, "' does not exist">>))
    ELSE Args(<<"-qc", p.left, p.right>>, None)

\* the error band starting one code too late
http_compare_files_classify_late(r) ==
    IF r.returncode <= 100
    THEN Res(<<"Files compared (return code: ", ToString(r.returncode), ")">>)
    ELSE Err(<<"Comparison failed with error code ", ToString(r.returncode), ": ",
               r.stderr>>)

\* compare_files, the classification of the completed run
http_compare_files_classify(r) ==
    IF r.returncode < 100
    THEN IF r.returncode = 0 THEN Res(<<"Files are identical (Success)">>)
         ELSE IF r.returncode = 1 THEN Res(<<"Files are binary identical">>)
         ELSE IF r.returncode = 2 THEN Res(<<"Files are rules-based identical">>)
         ELSE IF r.returncode = 11 THEN Res(<<"Files have binary differences">>)
         ELSE IF r.returncode = 12 THEN Res(<<"Files are similar">>)
         ELSE IF r.returncode = 13 THEN Res(<<"Files have rules-based differences">>)
         ELSE IF r.returncode = 14 THEN Res(<<"Conflicts detected in files">>)
         ELSE Res(<<"Files compared (return code: ", ToString(r.returncode), ")">>)
    ELSE Err(<<"Comparison failed with error code ", ToString(r.returncode), ": ",
               r.stderr>>)

\* compare_files after _run_command, with its except clause
http_compare_files_post(c, r) ==
    IF r.state = "raised"
    THEN Err(<<"Error comparing files: ">> \o r.error)
    ELSE http_compare_files_classify(r)

\* compare_folders up to _run_command
http_compare_folders_pre(p) ==
    IF p.left \notin files
    THEN Return(Err(<<"Left folder '", p.left, "' does not exist">>))
    ELSE IF p.right \notin files
    THEN Return(Err(<<"Right folder '", p.right, "' does not exist">>))
    ELSE Args(<<"-qc", p.left, p.right>>, None)

\* compare_folders after _run_command
http_compare_folders_post(c, r) ==
    IF r.state = "raised"
    THEN Err(<<"Error comparing folders: ">> \o r.error)
    ELSE IF r.success
    THEN Res(<<"Folder comparison result:\n",
               IF r.stdout # "" THEN r.stdout ELSE "Folders compared successfully">>)
    ELSE Err(<<"Folder comparison failed: ", r.stderr>>)

\* sync_folders up to _run_command; direction, delete_orphans and preview_only
\* arrive in **kwargs, which is not read
http_sync_folders_pre(p) ==
    IF p.left \notin files
    THEN Return(Err(<<"Source folder '", p.left, "' does not exist">>))
    ELSE IF p.right \notin files
    THEN Return(Err(<<"Target folder '", p.right, "' does not exist">>))
    ELSE Args(<<"-sync", p.left, p.right>>, None)

\* sync_folders after _run_command
http_sync_folders_post(c, r) ==
    IF r.state = "raised"
    THEN Err(<<"Error synchronizing folders: ">> \o r.error)
    ELSE IF r.success
    THEN Res(<<"Synchronization preview:\n",
               IF r.stdout # "" THEN r.stdout
               ELSE "Preview of synchronization completed">>)
    ELSE Err(<<"Synchronization failed: ", r.stderr>>)

\* generate_report up to _run_command; an output_file of None is the key
\* missing from kwargs
http_generate_report_pre(p) ==
    LET output_file == IF p.output_file = None THEN "bc_report.html" ELSE p.output_file
    IN  IF p.left \notin files
        THEN Return(Err(<<"Left path '", p.left, "' does not exist">>))
        ELSE IF p.right \notin files
        THEN Return(Err(<<"Right path '", p.right, "' does not exist">>))
        ELSE Args(<<"-silent", "-report", p.report_type, "-reportfile", output_file,
                    p.left, p.right>>, output_file)

\* generate_report after _run_command
http_generate_report_post(c, r) ==
    IF r.state = "raised"
    THEN Err(<<"Error generating report: ">> \o r.error)
    ELSE IF r.success
    THEN Res(<<"Report generated successfully: ", c.output_file>>)
    ELSE Err(<<"Report generation failed: ", r.stderr>>)

\* get_beyond_compare_info up to _run_command
http_get_info_pre ==
    IF bc_executable = None
    THEN Return(Res(<<"Beyond Compare is not installed or not found in PATH">>))
    ELSE Args(<<"-help">>, None)

\* get_beyond_compare_info after _run_command
http_get_info_post(c, r) ==
    IF r.state = "raised"
    THEN Err(<<"Error getting Beyond Compare info: ">> \o r.error)
    ELSE Res(<<"Beyond Compare executable: ", bc_executable, "\n">>
             \o (IF r.success
                 THEN <<"Version information:\n", r.stdout, "...">>
                 ELSE <<"Could not retrieve version information">>))

\* list_file_formats
http_list_file_formats == Res(<<"\nBeyond Compare supports comparison of: ...">>)

\* do_POST, the else branch of the dispatch
http_unknown_operation(operation) == Err(<<"Unknown operation: ", operation>>)

\* do_POST, its except clause: params that do not fit the operation's
\* signature raise TypeError at the call
http_server_error == Http500(<<"Server error: ", "TypeError">>)

-----------------------------------------------------------------------------
(* The rest of an operation, after _run_command ended with r *)

Post(c, r) ==
    IF c.impl = "mcp"
    THEN CASE c.op = "compare_files" -> mcp_compare_files_post(c, r)
           [] c.op = "compare_folders" -> mcp_compare_folders_post(c, r)
           [] c.op = "sync_folders" -> mcp_sync_folders_post(c, r)
           [] c.op = "generate_report" -> mcp_generate_report_post(c, r)
           [] c.op = "get_info" -> mcp_get_info_post(c, r)
    ELSE CASE c.op = "compare_files" -> http_compare_files_post(c, r)
           [] c.op = "compare_folders" -> http_compare_folders_post(c, r)
           [] c.op = "sync_folders" -> http_sync_folders_post(c, r)
           [] c.op = "generate_report" -> http_generate_report_post(c, r)
           [] c.op = "get_info" -> http_get_info_post(c, r)

NoCall ==
    [impl |-> "none", op |-> "none", params_ok |-> TRUE, params |-> Defaults,
     output_file |-> None]

\* _run_command without its guard on bc_executable
RunCommandStart_no_guard(args, spawnOK) ==
    IF ~spawnOK THEN RunCommandSpawnError
    ELSE [NoRun EXCEPT !.state = "running"]

\* _run_command up to and including the spawn in subprocess.run
RunCommandStart(args, spawnOK) ==
    IF bc_executable = None THEN RunCommandNotFound
    ELSE IF ~spawnOK THEN RunCommandSpawnError
    ELSE [NoRun EXCEPT !.state = "running"]

-----------------------------------------------------------------------------
(* The external tool and the file system *)

\* the element of the argument vector that follows "-reportfile"
ReportFileOf(c) ==
    LET at == {i \in 1..(Len(c) - 1) : c[i] = "-reportfile"}
    IN  IF at = {} THEN None ELSE c[(CHOOSE i \in at : TRUE) + 1]

Installed == {possible_paths[i] : i \in DOMAIN possible_paths}

\* the report files the tool has left behind
Reports == files \ (InputFiles \cup Installed)

\* the PATH and the install directories the server may be started in
Environments ==
    {[which |-> {}, installed |-> {}],
     [which |-> {}, installed |-> {"/usr/bin/bcompare", "/usr/local/bin/bcompare"}],
     [which |-> {"bcompare"}, installed |-> {}],
     [which |-> {"bcomp", "bcompare"}, installed |-> {"/usr/bin/bcompare"}]}

\* the second server process before its first request
NoPeer ==
    [call |-> NoCall, pc |-> "idle", cmd |-> << >>, child |-> NoChild, run |-> NoRun,
     result |-> NoResult]

-----------------------------------------------------------------------------
(* Actions *)

Init ==
    /\ \E env \in Environments :
        /\ pathCmds = env.which
        /\ files = InputFiles \cup env.installed
    /\ bc_executable = find_beyond_compare(pathCmds, files)
    /\ now = 0
    /\ call = NoCall
    /\ pc = "idle"
    /\ cmd = << >>
    /\ child = NoChild
    /\ run = NoRun
    /\ result = NoResult
    /\ peer = NoPeer
    /\ backups = << >>

\* one operation of front end i, from its entry to its return or to the
\* point where it waits in subprocess.run
Invoke(i, o, ok, p, pre, spawnOK) ==
    LET c == [impl |-> i, op |-> o, params_ok |-> ok, params |-> p,
              output_file |-> pre.output_file]
        r == RunCommandStart(pre.args, spawnOK)
    IN  /\ pc = "idle"
        /\ call' = c
        /\ IF pre.ret
           THEN /\ pc' = "done"
                /\ result' = pre.result
                /\ run' = NoRun
                /\ cmd' = << >>
                /\ child' = NoChild
           ELSE IF r.state = "raised"
           THEN /\ pc' = "done"
                /\ result' = Post(c, r)
                /\ run' = r
                /\ cmd' = IF bc_executable = None THEN << >> ELSE RunCommandCmd(pre.args)
                /\ child' = NoChild
           ELSE /\ pc' = "running"
                /\ result' = NoResult
                /\ run' = r
                /\ cmd' = RunCommandCmd(pre.args)
                /\ child' = ChildRunning
        /\ UNCHANGED <<pathCmds, files, bc_executable, now, peer, backups>>

compare_files ==
    \E p \in CompareFilesParams, spawnOK \in BOOLEAN :
        Invoke("mcp", "compare_files", TRUE, p, mcp_compare_files_pre(p), spawnOK)

compare_folders ==
    \E p \in CompareFoldersParams, spawnOK \in BOOLEAN :
        Invoke("mcp", "compare_folders", TRUE, p, mcp_compare_folders_pre(p), spawnOK)

sync_folders ==
    \E p \in SyncFoldersParams, spawnOK \in BOOLEAN :
        Invoke("mcp", "sync_folders", TRUE, p, mcp_sync_folders_pre(p), spawnOK)

generate_report ==
    \E p \in GenerateReportParams, spawnOK \in BOOLEAN :
        Invoke("mcp", "generate_report", TRUE, p, mcp_generate_report_pre(p), spawnOK)

get_beyond_compare_info ==
    \E spawnOK \in BOOLEAN :
        Invoke("mcp", "get_info", TRUE, Defaults, mcp_get_info_pre, spawnOK)

list_file_formats ==
    Invoke("mcp", "list_formats", TRUE, Defaults, Return(mcp_list_file_formats), TRUE)

do_POST_compare_files ==
    \E p \in CompareFilesParams, spawnOK \in BOOLEAN :
        Invoke("http", "compare_files", TRUE, p, http_compare_files_pre(p), spawnOK)

do_POST_compare_folders ==
    \E p \in CompareFoldersParams, spawnOK \in BOOLEAN :
        Invoke("http", "compare_folders", TRUE, p, http_compare_folders_pre(p), spawnOK)

do_POST_sync_folders ==
    \E p \in SyncFoldersParams, spawnOK \in BOOLEAN :
        Invoke("http", "sync_folders", TRUE, p, http_sync_folders_pre(p), spawnOK)

do_POST_generate_report ==
    \E p \in GenerateReportParams, spawnOK \in BOOLEAN :
        Invoke("http", "generate_report", TRUE, p, http_generate_report_pre(p), spawnOK)

do_POST_get_info ==
    \E spawnOK \in BOOLEAN :
        Invoke("http", "get_info", TRUE, Defaults, http_get_info_pre, spawnOK)

do_POST_list_formats ==
    Invoke("http", "list_formats", TRUE, Defaults, Return(http_list_file_formats), TRUE)

\* an operation name outside the dispatch of do_POST
UnknownOperations == {"merge_files"}

do_POST_unknown ==
    \E o \in UnknownOperations :
        Invoke("http", o, TRUE, Defaults, Return(http_unknown_operation(o)), TRUE)

\* a request whose params lack a required argument of the operation
do_POST_bad_params ==
    \E o \in {"compare_files", "compare_folders", "sync_folders", "generate_report"} :
        Invoke("http", o, FALSE, Defaults, Return(http_server_error), TRUE)

\* the child exits by itself: subprocess.run returns, _run_command returns
\* its dictionary, the operation classifies it and returns
ChildExit ==
    /\ pc = "running"
    /\ \E rc \in ExitCodes, o \in Outputs, wrote \in BOOLEAN :
        LET r == RunCommandReturn(cmd, rc, o.stdout, o.stderr)
            f == ReportFileOf(cmd)
        IN  /\ wrote => /\ f # None
                        /\ f \in files \/ Cardinality(Reports) < MaxReports
            /\ files' = IF wrote THEN files \cup {f} ELSE files
            /\ child' = ChildExited(rc)
            /\ run' = r
            /\ result' = Post(call, r)
    /\ pc' = "done"
    /\ UNCHANGED <<pathCmds, bc_executable, now, call, cmd, peer, backups>>

\* the child is still running when the timeout expires
ChildTimeout ==
    /\ pc = "running"
    /\ child.timeout # << >>
    /\ run' = RunCommandTimeout(child.timeout[1])
    /\ result' = Post(call, RunCommandTimeout(child.timeout[1]))
    /\ pc' = "done"
    /\ child' = ChildAfterTimeout
    /\ UNCHANGED <<pathCmds, files, bc_executable, now, call, cmd, peer, backups>>

\* the operation's return value has been sent; the server waits for the next
\* request (mcp.run, HTTPServer.serve_forever)
NextRequest ==
    /\ pc = "done"
    /\ pc' = "idle"
    /\ call' = NoCall
    /\ cmd' = << >>
    /\ child' = NoChild
    /\ run' = NoRun
    /\ result' = NoResult
    /\ UNCHANGED <<pathCmds, files, bc_executable, now, peer, backups>>

\* the loop clock advances
Tick ==
    /\ now < MaxTime
    /\ now' = now + 1
    /\ UNCHANGED <<pathCmds, files, bc_executable, call, pc, cmd, child, run, result, peer, backups>>

Next ==
    \/ compare_files
    \/ compare_folders
    \/ sync_folders
    \/ generate_report
    \/ get_beyond_compare_info
    \/ list_file_formats
    \/ do_POST_compare_files
    \/ do_POST_compare_folders
    \/ do_POST_sync_folders
    \/ do_POST_generate_report
    \/ do_POST_get_info
    \/ do_POST_list_formats
    \/ do_POST_unknown
    \/ do_POST_bad_params
    \/ ChildExit
    \/ ChildTimeout
    \/ NextRequest
    \/ Tick

Spec == Init /\ [][Next]_vars

\* the clock of subprocess.run's timeout runs whatever the child does: a wait
\* that has a timeout does not outlast it.  Nothing is assumed of the child.
FairSpec == Spec /\ WF_vars(ChildTimeout)

-----------------------------------------------------------------------------
(* Two server processes.  Each server serves one request at a time (the     *)
(* tools are plain functions run to their end, HTTPServer handles one       *)
(* request per loop turn), so invocations run concurrently only in          *)
(* different server processes, which share the file system and the clock.   *)

\* exit codes and output of the peer's child
PeerExitCodes == {0, 100}
PeerOutput == [stdout |-> "", stderr |-> ""]

\* generate_report of front end i in the peer, called with the two paths only
PeerInvoke(i, pre, spawnOK) ==
    LET c == [impl |-> i, op |-> "generate_report", params_ok |-> TRUE,
              params |-> Defaults, output_file |-> pre.output_file]
        r == RunCommandStart(pre.args, spawnOK)
    IN  /\ peer.pc = "idle"
        /\ peer' =
            IF pre.ret
            THEN [call |-> c, pc |-> "done", cmd |-> << >>, child |-> NoChild,
                  run |-> NoRun, result |-> pre.result]
            ELSE IF r.state = "raised"
            THEN [call |-> c, pc |-> "done",
                  cmd |-> IF bc_executable = None THEN << >> ELSE RunCommandCmd(pre.args),
                  child |-> NoChild, run |-> r, result |-> Post(c, r)]
            ELSE [call |-> c, pc |-> "running", cmd |-> RunCommandCmd(pre.args),
                  child |-> ChildRunning, run |-> r, result |-> NoResult]
        /\ UNCHANGED <<pathCmds, files, bc_executable, now, call, pc, cmd, child, run, result, backups>>

peer_generate_report ==
    \E spawnOK \in BOOLEAN : PeerInvoke("mcp", mcp_generate_report_pre(Defaults), spawnOK)

peer_do_POST_generate_report ==
    \E spawnOK \in BOOLEAN : PeerInvoke("http", http_generate_report_pre(Defaults), spawnOK)

PeerChildExit ==
    /\ peer.pc = "running"
    /\ \E rc \in PeerExitCodes, wrote \in BOOLEAN :
        LET r == RunCommandReturn(peer.cmd, rc, PeerOutput.stdout, PeerOutput.stderr)
            f == ReportFileOf(peer.cmd)
        IN  /\ wrote => /\ f # None
                        /\ f \in files \/ Cardinality(Reports) < MaxReports
            /\ files' = IF wrote THEN files \cup {f} ELSE files
            /\ peer' = [peer EXCEPT !.pc = "done", !.child = ChildExited(rc), !.run = r,
                                    !.result = Post(peer.call, r)]
    /\ UNCHANGED <<pathCmds, bc_executable, now, call, pc, cmd, child, run, result, backups>>

PeerChildTimeout ==
    /\ peer.pc = "running"
    /\ peer.child.timeout # << >>
    /\ peer' = [peer EXCEPT !.pc = "done", !.child = ChildAfterTimeout,
                            !.run = RunCommandTimeout(peer.child.timeout[1]),
                            !.result = Post(peer.call,
                                            RunCommandTimeout(peer.child.timeout[1]))]
    /\ UNCHANGED <<pathCmds, files, bc_executable, now, call, pc, cmd, child, run, result, backups>>

PeerNextRequest ==
    /\ peer.pc = "done"
    /\ peer' = NoPeer
    /\ UNCHANGED <<pathCmds, files, bc_executable, now, call, pc, cmd, child, run, result, backups>>

\* generate_report of this server, called with the two paths only
paths_only_generate_report ==
    \E spawnOK \in BOOLEAN :
        Invoke("mcp", "generate_report", TRUE, Defaults,
               mcp_generate_report_pre(Defaults), spawnOK)

paths_only_do_POST_generate_report ==
    \E spawnOK \in BOOLEAN :
        Invoke("http", "generate_report", TRUE, Defaults,
               http_generate_report_pre(Defaults), spawnOK)

NextConcurrent ==
    \/ paths_only_generate_report
    \/ paths_only_do_POST_generate_report
    \/ ChildExit
    \/ ChildTimeout
    \/ NextRequest
    \/ Tick
    \/ peer_generate_report
    \/ peer_do_POST_generate_report
    \/ PeerChildExit
    \/ PeerChildTimeout
    \/ PeerNextRequest

ConcurrentSpec == Init /\ [][NextConcurrent]_vars

-----------------------------------------------------------------------------
(* utils.create_backup, which no operation of the servers calls *)

BackupFile == "/data/notes.txt"
\* another spelling of BackupFile
BackupFileDoubleSlash == "/data//notes.txt"
BackupMissing == "/data/missing.txt"
BackupDir == "/data"

\* the existing paths that are not regular files
Directories == {BackupDir}

BackupInputs == {BackupFile, BackupFileDoubleSlash, BackupMissing, BackupDir}
BackupSuffixes == {".bak", ""}

\* the file system before the first call: no backup yet, the plain backup
\* name taken, the plain name and a numbered one taken
BackupInits ==
    {{BackupDir, BackupFile},
     {BackupDir, BackupFile, BackupFile \o ".bak"},
     {BackupDir, BackupFile, BackupFile \o ".bak", BackupFile \o ".bak.2"}}

\* str(Path(file_path)): repeated separators collapse
PathStr(p) == IF p = BackupFileDoubleSlash THEN BackupFile ELSE p

\* f"{str(path_obj)}{backup_suffix}.{counter}"
NumberedBackup(base, suffix, counter) == base \o suffix \o "." \o ToString(counter)

\* the while loop, entered with the given counter
RECURSIVE FreeNumbered(_, _, _, _)
FreeNumbered(base, suffix, counter, exists) ==
    IF NumberedBackup(base, suffix, counter) \in exists
    THEN FreeNumbered(base, suffix, counter + 1, exists)
    ELSE NumberedBackup(base, suffix, counter)

\* the backup always written to the plain backup name
backup_path_no_counter(base, suffix, exists) == base \o suffix

\* backup_path as the copy finds it
backup_path(base, suffix, exists) ==
    IF base \o suffix \in exists
    THEN FreeNumbered(base, suffix, 1, exists)
    ELSE base \o suffix

InitBackup ==
    /\ files \in BackupInits
    /\ backups = << >>
    /\ pathCmds = {}
    /\ bc_executable = find_beyond_compare(pathCmds, files)
    /\ now = 0
    /\ call = NoCall
    /\ pc = "idle"
    /\ cmd = << >>
    /\ child = NoChild
    /\ run = NoRun
    /\ result = NoResult
    /\ peer = NoPeer

\* one call of create_backup; shutil.copy2 copies the file, or raises having
\* written part of the backup or nothing
create_backup ==
    /\ Len(backups) < MaxBackups
    /\ \E file_path \in BackupInputs, backup_suffix \in BackupSuffixes,
          copied \in {"all", "part", "nothing"} :
        LET path_obj == PathStr(file_path)
            target == backup_path(path_obj, backup_suffix, files)
            returned(v) == [file_path |-> file_path, backup_suffix |-> backup_suffix,
                            returned |-> v]
        IN  IF path_obj \notin files \/ path_obj \in Directories
            THEN /\ files' = files
                 /\ backups' = Append(backups, returned(None))
            ELSE /\ files' = IF copied = "nothing" THEN files ELSE files \cup {target}
                 /\ backups' = Append(backups,
                                      returned(IF copied = "all" THEN target ELSE None))
    /\ UNCHANGED <<pathCmds, bc_executable, now, call, pc, cmd, child, run, result, peer>>

NextBackup == create_backup

BackupSpec == InitBackup /\ [][NextBackup]_vars

-----------------------------------------------------------------------------
(* Reading a returned value *)

CompareOps == {"compare_files", "compare_folders", "sync_folders", "generate_report"}

\* text t holds the fragment x
Holds(t, x) == \E i \in DOMAIN t : t[i] = x

\* the literal a returned message starts with
Lead(res) == IF res.text = << >> THEN "" ELSE res.text[1]

\* the operation has returned after a child that ran to its exit
Completed == pc = "done" /\ run.state = "returned"

\* the messages with which the MCP tools report a failure
McpFailureLeads ==
    {"Comparison failed: ", "Folder comparison failed: ", "Synchronization failed: ",
     "Report generation failed: ", "Error comparing files: ", "Error comparing folders: ",
     "Error synchronizing folders: ", "Error generating report: ",
     "Error getting Beyond Compare info: ", "Error: Left file '", "Error: Right file '",
     "Error: Left folder '", "Error: Right folder '", "Error: Source folder '",
     "Error: Target folder '", "Error: Left path '", "Error: Right path '",
     "Error: Invalid direction '", "Error: Invalid report type '"}

\* the returned value reports a failure
IsError(res) ==
    \/ res.key \in {"error", "http500"}
    \/ res.key = "str" /\ Lead(res) \in McpFailureLeads

\* the outcome variant a returned value states
Outcome(res) ==
    IF IsError(res) THEN "Error"
    ELSE CASE Lead(res) \in {"Files are identical", "Files are identical (Success)"}
                -> "Identical"
           [] Lead(res) = "Files are binary identical" -> "BinaryIdentical"
           [] Lead(res) = "Files are rules-based identical" -> "RulesBasedIdentical"
           [] Lead(res) = "Files have binary differences" -> "Different (binary)"
           [] Lead(res) = "Files are similar" -> "Similar"
           [] Lead(res) = "Files have rules-based differences" -> "Different (rules-based)"
           [] Lead(res) = "Conflicts detected in files" -> "Conflict"
           [] Lead(res) \in {"Files differ:\n", "Files have differences"} -> "Different"
           [] OTHER -> "Unclassified"

Variants ==
    {"Identical", "BinaryIdentical", "RulesBasedIdentical", "Similar", "Different",
     "Different (binary)", "Different (rules-based)", "Conflict", "Error"}

TableCodes == {0, 1, 2, 11, 12, 13, 14}

\* the exit-code table
TableOutcome(code) ==
    CASE code = 0 -> "Identical"
      [] code = 1 -> "BinaryIdentical"
      [] code = 2 -> "RulesBasedIdentical"
      [] code = 11 -> "Different (binary)"
      [] code = 12 -> "Similar"
      [] code = 13 -> "Different (rules-based)"
      [] code = 14 -> "Conflict"

-----------------------------------------------------------------------------
(* Claims *)

\* C1: for every exit code of the table and every operation, in both front
\* ends, the returned result states the outcome the table fixes for the code.
C1_TableOutcomeReturned ==
    (Completed /\ call.op \in CompareOps /\ child.code \in TableCodes)
        => Outcome(result) = TableOutcome(child.code)

\* C2: for every exit code >= 100 and each of the four operations, in both
\* front ends, the result is a failure that carries the tool's stderr text,
\* never an identical, different or success result.
C2_ErrorBandIsError ==
    (Completed /\ call.op \in CompareOps /\ child.code >= 100)
        => /\ IsError(result)
           /\ Outcome(result) = "Error"
           /\ result.text[Len(result.text)] = run.stderr

C2_Witness ==
    /\ Completed
    /\ call.op = "generate_report"
    /\ child.code >= 100
    /\ run.stderr = "tool error"
    /\ IsError(result)

\* C3: for every completed run the success flag of _run_command is true
\* exactly when the exit code is below 100, and the exit code is reported
\* unchanged.
C3_SuccessIffBelow100 ==
    run.state = "returned"
        => /\ run.success <=> (child.code < 100)
           /\ run.returncode = child.code

C3_Witness ==
    /\ run.state = "returned"
    /\ child.code = 13
    /\ run.success
    /\ run.returncode = 13

\* C4: for every exit code in [3,99] other than 11, 12, 13 and 14,
\* compare_files returns a generic Different outcome that includes the
\* tool's stdout.
C4_GenericDifferent ==
    (/\ Completed
     /\ call.op = "compare_files"
     /\ child.code \in (3..99) \ {11, 12, 13, 14})
        => /\ Outcome(result) = "Different"
           /\ run.stdout # "" => Holds(result.text, run.stdout)

\* C5: for every exit code the child can return and every operation, the
\* returned outcome is one of the variants Identical, BinaryIdentical,
\* RulesBasedIdentical, Similar, Different, Conflict, Error.
C5_OutcomeIsVariant ==
    (Completed /\ call.op \in CompareOps) => Outcome(result) \in Variants

\* a path argument of the call does not exist
PathMissing == call.params.left \notin files \/ call.params.right \notin files

\* the first path argument that does not exist
Offending ==
    IF call.params.left \notin files THEN call.params.left ELSE call.params.right

\* the call is past its entry
InCall == pc \in {"running", "done"} /\ call.params_ok

\* C6: if the left/source or the right/target path of one of the four
\* operations does not exist, the operation returns a 'does not exist' error
\* naming the offending path, _run_command is not entered and no child
\* process is spawned during the call.
C6_MissingPathNoSpawn ==
    (InCall /\ call.op \in CompareOps /\ PathMissing)
        => /\ pc = "done"
           /\ IsError(result)
           /\ Len(result.text) = 3
           /\ result.text[2] = Offending
           /\ result.text[3] = "' does not exist"
           /\ run.state = "not_entered"
           /\ cmd = << >>
           /\ child = NoChild

C6_Witness ==
    /\ pc = "done"
    /\ call.op = "sync_folders"
    /\ call.params.left \in files
    /\ call.params.right \notin files
    /\ result.text[2] = RightMissing
    /\ child = NoChild

\* C7: sync_folders called with a direction other than 'left-to-right',
\* 'right-to-left' or 'bidirectional' returns an invalid-option error and no
\* child process is spawned during the call, in both front ends.
C7_InvalidDirectionRejected ==
    (/\ InCall
     /\ call.op = "sync_folders"
     /\ ~PathMissing
     /\ call.params.direction \notin {"left-to-right", "right-to-left", "bidirectional"})
        => /\ pc = "done"
           /\ IsError(result)
           /\ Holds(result.text, call.params.direction)
           /\ child = NoChild

\* C8: an option value outside its enumeration is rejected with an error
\* before the argument vector is built and is never ignored or passed to the
\* tool: generate_report rejects every report_type other than html, xml,
\* csv, text, and compare_files every output_format it does not recognise.
C8_UnknownEnumRejected ==
    (/\ InCall
     /\ ~PathMissing
     /\ \/ /\ call.op = "generate_report"
           /\ call.params.report_type \notin {"html", "xml", "csv", "text"}
        \/ /\ call.op = "compare_files"
           /\ call.params.output_format \notin {"text", "html", "side-by-side"})
        => /\ pc = "done"
           /\ IsError(result)
           /\ cmd = << >>
           /\ child = NoChild

\* an option value the operation validates and finds invalid
InvalidOptionFound ==
    /\ call.impl = "mcp"
    /\ ~PathMissing
    /\ \/ call.op = "sync_folders" /\ ~mcp_sync_direction_ok(call.params.direction)
       \/ call.op = "generate_report" /\ ~mcp_report_type_ok(call.params.report_type)

\* the failure the call ran into, "none" if it ran into none
Fault ==
    CASE ~call.params_ok -> "BadRequest"
      [] call.op \in UnknownOperations -> "BadRequest"
      [] call.op \in CompareOps /\ PathMissing -> "PathNotFound"
      [] InvalidOptionFound -> "InvalidOption"
      [] call.op \in CompareOps \cup {"get_info"} /\ bc_executable = None -> "ToolNotFound"
      [] child.state = "killed" -> "ProcessTimeout"
      [] run.state = "raised" /\ child = NoChild -> "ProcessSpawnError"
      [] run.state = "returned" /\ child.code >= 100 -> "ToolReportedError"
      [] OTHER -> "none"

\* the returned value describes the failure the call ran into
Describes(res, fault) ==
    CASE fault = "BadRequest" -> IsError(res)
      [] fault = "PathNotFound" -> IsError(res) /\ Holds(res.text, Offending)
      [] fault = "InvalidOption" ->
            /\ IsError(res)
            /\ \/ Holds(res.text, call.params.direction)
               \/ Holds(res.text, call.params.report_type)
      [] fault = "ToolNotFound" ->
            IF call.op = "get_info"
            THEN Lead(res) = "Beyond Compare is not installed or not found in PATH"
            ELSE /\ IsError(res)
                 /\ Holds(res.text, "Beyond Compare executable not found. Please install Beyond Compare.")
      [] fault = "ProcessTimeout" ->
            IsError(res) /\ Holds(res.text, "Command timed out after ")
      [] fault = "ProcessSpawnError" ->
            IsError(res) /\ Holds(res.text, "Failed to execute command: ")
      [] fault = "ToolReportedError" ->
            IF call.op = "get_info"
            THEN Holds(res.text, "Could not retrieve version information")
            ELSE IsError(res) /\ Holds(res.text, run.stderr)

\* every returned call returned a value; a call that ran into a failure
\* returned a value describing it, any other call a normal result
C9_Returned ==
    pc = "done"
        => /\ result.key \in {"str", "result", "error", "http500"}
           /\ Fault # "none" => Describes(result, Fault)
           /\ Fault = "none" => ~IsError(result)

\* a failed call is followed by the server waiting for the next request,
\* its manager as it was
C9_StillServing ==
    (pc = "done" /\ Fault # "none" /\ pc' # "done")
        => /\ pc' = "idle"
           /\ bc_executable' = bc_executable
           /\ pathCmds' = pathCmds
           /\ files' = files

C10_TimeoutKillsChild ==
    /\ pc = "done" => child.state # "running"
    /\ (pc = "done" /\ child.state \notin {"none", "exited"})
        => /\ child.state = "killed"
           /\ run.state = "raised"
           /\ run.error = <<"Command timed out after ", "30", " seconds">>
           /\ IsError(result)
    /\ run.state = "returned" => child.state = "exited"

C10_Witness ==
    /\ pc = "done"
    /\ child.state = "killed"
    /\ run.state = "raised"
    /\ Holds(result.text, "Command timed out after ")

\* C11: every external-process invocation carries a timeout (the default of
\* 30 seconds; no caller supplies another), and every operation call that
\* waits for a child eventually returns, even if the child never exits.
C11_EveryCallReturns ==
    /\ [](pc = "running" => child.timeout = <<DefaultTimeout>>)
    /\ (pc = "running") ~> (pc = "done" /\ result # NoResult)

C11_Witness ==
    /\ pc = "done"
    /\ child = ChildAfterTimeout
    /\ call.op = "sync_folders"
    /\ result # NoResult

\* number of elements of seq s equal to x
Count(s, x) == Cardinality({i \in DOMAIN s : s[i] = x})

\* the option words the operations put into an argument vector
OptionWords ==
    {"-qc", "-ignorecase", "-ignoreunimportant", "-recurse", "-silent", "-sync",
     "update:left->right", "update:right->left", "update:left<->right",
     "create:left->right", "delete:left->right", "-report", "-reportfile"}
        \cup ReportTypes

\* an argument vector was built for the child of a compare, sync or report call
VectorBuilt == pc # "idle" /\ cmd # << >> /\ call.op \in CompareOps

\* C12: in every argument vector built for a child, each supplied path (the
\* two inputs and, for a report, the output file), also one with spaces or
\* shell metacharacters, is exactly one element, unmodified; every other
\* element after the executable is an option word, none a concatenation; and
\* the child is spawned without a shell.
C12_PathsAreSingleElements ==
    /\ VectorBuilt =>
        /\ Count(cmd, call.params.left) = 1
        /\ Count(cmd, call.params.right) = 1
        /\ call.op = "generate_report" => Count(cmd, call.output_file) = 1
        /\ \A i \in 2..Len(cmd) :
              cmd[i] \in OptionWords \cup {call.params.left, call.params.right,
                                          call.output_file}
    /\ ~child.shell

C12_Witness ==
    /\ VectorBuilt
    /\ child.state = "running"
    /\ call.op = "generate_report"
    /\ call.params.left = LeftOK
    /\ call.params.right = RightOK
    /\ call.output_file = "/out/report.html"
    /\ Len(cmd) = 8

\* C13: the locator returns the first existing absolute install path of its
\* ordered list; only when none exists, the first command name found on the
\* PATH; and None only when neither matches.
C13_InstallPathsFirst ==
    LET installed == FirstIn(possible_paths, files)
        onPath == FirstIn(path_commands, pathCmds)
    IN  /\ installed # None => bc_executable = installed
        /\ (installed = None /\ onPath # None) => bc_executable = onPath
        /\ bc_executable = None <=> (installed = None /\ onPath = None)

\* C14: bc_executable is what the locator found at construction; no step of
\* any operation changes it; and every child an operation spawns has that
\* value as element 0 of its argument vector.
C14_ExecutableCached ==
    /\ [](bc_executable = find_beyond_compare(pathCmds, files \cap Installed))
    /\ [][bc_executable' = bc_executable]_vars
    /\ [](child.state # "none" => (cmd # << >> /\ cmd[1] = bc_executable))

C14_Witness ==
    /\ child.state = "running"
    /\ call.op = "get_info"
    /\ bc_executable = "/usr/bin/bcompare"
    /\ cmd[1] = "/usr/bin/bcompare"

\* the argument vector ends with the left path, then the right path, and
\* holds only option words between the executable and the two paths
FlagsThenPaths ==
    /\ Len(cmd) >= 3
    /\ cmd[Len(cmd) - 1] = call.params.left
    /\ cmd[Len(cmd)] = call.params.right
    /\ \A i \in 2..(Len(cmd) - 2) : cmd[i] \in OptionWords

\* C15: the vector of compare_files and compare_folders has the option flags
\* first and the left path, then the right path last; "-ignorecase" is in it
\* exactly when ignore_case is true, "-ignoreunimportant" exactly when
\* ignore_whitespace is true, the former before the latter; "-recurse" is in
\* it exactly when recursive is true.
C15_CompareVector ==
    /\ (VectorBuilt /\ call.op = "compare_files")
        => /\ FlagsThenPaths
           /\ Holds(cmd, "-ignorecase") <=> call.params.ignore_case
           /\ Holds(cmd, "-ignoreunimportant") <=> call.params.ignore_whitespace
           /\ \A i, j \in DOMAIN cmd :
                (cmd[i] = "-ignorecase" /\ cmd[j] = "-ignoreunimportant") => i < j
    /\ (VectorBuilt /\ call.op = "compare_folders")
        => /\ FlagsThenPaths
           /\ Holds(cmd, "-recurse") <=> call.params.recursive

\* the positions of the argument vector after the right path
AfterPaths == {i \in DOMAIN cmd : \E k \in 1..(i - 1) : cmd[k] = call.params.right}

\* C16: the vector of compare_files called with output_format = "html" has,
\* after the two file paths, a report-path flag ("-reportfile") and a
\* report-format flag ("-report").
C16_HtmlAppendsReportFlags ==
    (VectorBuilt /\ call.op = "compare_files" /\ call.params.output_format = "html")
        => /\ \E i \in AfterPaths : cmd[i] = "-reportfile"
           /\ \E i \in AfterPaths : cmd[i] = "-report"

\* the three sync-mode fragments, by direction
SyncFragments ==
    [d \in {"left-to-right", "right-to-left", "bidirectional"} |->
        CASE d = "left-to-right" -> "update:left->right"
          [] d = "right-to-left" -> "update:right->left"
          [] d = "bidirectional" -> "update:left<->right"]

\* a vector was built for a sync_folders call with one of the three directions
SyncVectorBuilt ==
    VectorBuilt /\ call.op = "sync_folders" /\ call.params.direction \in DOMAIN SyncFragments

\* C17: in the vector of sync_folders, "-sync" is followed by the fragment of
\* the direction, the three fragments being pairwise distinct; with
\* delete_orphans the create and delete directives follow the fragment; and
\* the last two elements are the source folder, then the target folder.
C17_SyncVector ==
    SyncVectorBuilt
        => /\ Count(cmd, "-sync") = 1
           /\ \A i \in 1..(Len(cmd) - 1) : cmd[i] = "-sync" =>
                /\ cmd[i + 1] = SyncFragments[call.params.direction]
                /\ call.params.delete_orphans =>
                      /\ i + 3 <= Len(cmd)
                      /\ cmd[i + 2] = "create:left->right"
                      /\ cmd[i + 3] = "delete:left->right"
           /\ \A d, e \in DOMAIN SyncFragments : SyncFragments[d] = SyncFragments[e] => d = e
           /\ cmd[Len(cmd) - 1] = call.params.left
           /\ cmd[Len(cmd)] = call.params.right

\* the directives that make the tool copy, create or delete files
WriteDirectives ==
    {"update:left->right", "update:right->left", "update:left<->right",
     "create:left->right", "delete:left->right"}

\* C18: the vector of sync_folders called with preview_only = true holds
\* "-silent" and no update, create or delete directive, whatever the
\* direction and delete_orphans.
C18_PreviewNeverWrites ==
    (VectorBuilt /\ call.op = "sync_folders" /\ call.params.preview_only)
        => /\ Holds(cmd, "-silent")
           /\ \A i \in DOMAIN cmd : cmd[i] \notin WriteDirectives

\* C19: the vector of generate_report called with a recognised report type
\* holds "-report" followed by that type, and its last element is the output
\* path.
C19_ReportVector ==
    (VectorBuilt /\ call.op = "generate_report" /\ mcp_report_type_ok(call.params.report_type))
        => /\ \E i \in 1..(Len(cmd) - 1) :
                cmd[i] = "-report" /\ cmd[i + 1] = call.params.report_type
           /\ cmd[Len(cmd)] = call.output_file

\* C19 as the code has it: the vector of generate_report called with a
\* recognised report type holds "-report" followed by that type; the output
\* path follows "-reportfile" as the last option, and the last two elements
\* are the left path, then the right path.
C19_ReportVectorAmended ==
    (VectorBuilt /\ call.op = "generate_report" /\ mcp_report_type_ok(call.params.report_type))
        => /\ \E i \in 1..(Len(cmd) - 1) :
                cmd[i] = "-report" /\ cmd[i + 1] = call.params.report_type
           /\ Len(cmd) >= 5
           /\ cmd[Len(cmd) - 3] = "-reportfile"
           /\ cmd[Len(cmd) - 2] = call.output_file
           /\ cmd[Len(cmd) - 1] = call.params.left
           /\ cmd[Len(cmd)] = call.params.right

C19_Witness ==
    /\ VectorBuilt
    /\ child.state = "running"
    /\ call.impl = "mcp"
    /\ call.op = "generate_report"
    /\ call.params.report_type = "csv"
    /\ call.output_file = "bc_report_1.csv"

\* C20: a merge_files request is served by a merge operation: it is not
\* answered as an unknown operation, and unless it reports a failure it has
\* built an argument vector (the inputs, the output, the automatic-merge
\* flag) for the tool.
C20_MergeFilesAvailable ==
    (pc = "done" /\ call.op = "merge_files")
        => /\ Lead(result) # "Unknown operation: "
           /\ ~IsError(result) => cmd # << >>

\* the report file is named by the operation, not by the caller
NameGenerated == call.op = "generate_report" /\ call.params.output_file = None

\* the argument vector the current call builds when it is made at loop time t:
\* the vector it built, with the generated report name as of time t
VectorAt(t) ==
    [i \in DOMAIN cmd |->
        IF i > 1 /\ cmd[i - 1] = "-reportfile" /\ NameGenerated /\ call.impl = "mcp"
        THEN mcp_report_name(t, call.params.report_type)
        ELSE cmd[i]]

\* C21: the argument vector of a call is determined by its operation, paths
\* and options: the same call made at any other time builds the same vector,
\* generate_report without output_file included.
C21_VectorDeterministic ==
    VectorBuilt => \A t \in 0..MaxTime : VectorAt(t) = cmd

\* C22: generate_report returns "Report generated successfully" only when
\* the report file exists after the tool ran; a run with an exit code below
\* 100 that wrote no file is not reported as a generated report.
C22_ReportedOnlyIfWritten ==
    (pc = "done" /\ call.op = "generate_report"
        /\ Lead(result) = "Report generated successfully: ")
        => call.output_file \in files

\* the report file the peer's call names itself
PeerNameGenerated == peer.call.op = "generate_report" /\ peer.call.params.output_file = None

\* C23: two invocations running at the same time each have their own child
\* and do not write the same resource: two generate_report invocations made
\* without output_file never have the same report file path as target.
C23_NoSharedReportFile ==
    (pc = "running" /\ peer.pc = "running")
        => /\ child.state = "running" /\ peer.child.state = "running"
           /\ (NameGenerated /\ PeerNameGenerated)
                => ReportFileOf(cmd) # ReportFileOf(peer.cmd)

\* the call got past the operation's own checks to _run_command
ReachesRunCommand ==
    /\ call.op \in CompareOps
    /\ call.params_ok
    /\ ~PathMissing
    /\ ~InvalidOptionFound

\* C24: when no executable was located, no process is ever spawned;
\* _run_command ends by raising "executable not found" for every operation
\* that reaches it, and the operation returns an error holding that message;
\* get_beyond_compare_info returns "not installed or not found" without
\* entering _run_command.
C24_NotLocated ==
    bc_executable = None
        => /\ child = NoChild /\ cmd = << >> /\ pc # "running"
           /\ (pc = "done" /\ ReachesRunCommand)
                => /\ run = RunCommandNotFound
                   /\ IsError(result)
                   /\ Holds(result.text,
                            "Beyond Compare executable not found. Please install Beyond Compare.")
           /\ (pc = "done" /\ call.op = "get_info")
                => /\ run = NoRun
                   /\ Lead(result) = "Beyond Compare is not installed or not found in PATH"

C24_Witness ==
    /\ bc_executable = None
    /\ pc = "done"
    /\ call.op = "sync_folders"
    /\ ReachesRunCommand
    /\ run = RunCommandNotFound

\* the class of a compare_files result: identical, error, or other
Class(res) ==
    IF IsError(res) THEN "error"
    ELSE IF Lead(res) \in {"Files are identical", "Files are identical (Success)",
                           "Files are binary identical", "Files are rules-based identical"}
    THEN "identical"
    ELSE "other"

\* the class the claim gives an exit code
ClassOfCode(code) ==
    IF code \in {0, 1, 2} THEN "identical"
    ELSE IF code >= 100 THEN "error"
    ELSE "other"

\* C25: for every completed compare_files run on existing paths, the MCP and
\* the HTTP classification of the run are of the same class: identical
\* exactly for the codes 0, 1, 2, error exactly for the codes >= 100, a
\* non-identical non-error result for every other code; and the returned
\* result is of that class.
C25_FrontEndsAgree ==
    (Completed /\ call.op = "compare_files")
        => /\ Class(mcp_compare_files_classify(run)) = ClassOfCode(child.code)
           /\ Class(http_compare_files_classify(run)) = ClassOfCode(child.code)
           /\ Class(result) = ClassOfCode(child.code)

C25_Witness ==
    /\ Completed
    /\ call.op = "compare_files"
    /\ call.impl = "http"
    /\ child.code = 2
    /\ Class(result) = "identical"
    /\ Class(mcp_compare_files_classify(run)) = "identical"

\* the calls of create_backup that returned a backup path
Backed == {i \in DOMAIN backups : backups[i].returned # None}

\* all returned backup paths are pairwise distinct and still exist
C26_BackupsKept ==
    /\ \A i, j \in Backed : backups[i].returned = backups[j].returned => i = j
    /\ \A i \in Backed : backups[i].returned \in files

\* what one call of create_backup does to the file system
C26_CallEffect ==
    Len(backups') > Len(backups) =>
        LET c == backups'[Len(backups')]
            base == PathStr(c.file_path)
            plain == base \o c.backup_suffix
        IN  /\ files \subseteq files'
            /\ (base \notin files \/ base \in Directories)
                => (c.returned = None /\ files' = files)
            /\ c.returned # None =>
                /\ c.returned \notin files
                /\ files' = files \cup {c.returned}
                /\ plain \notin files => c.returned = plain
                /\ plain \in files =>
                    \E n \in 1..(Cardinality(files) + 1) :
                        /\ c.returned = NumberedBackup(base, c.backup_suffix, n)
                        /\ \A m \in 1..(n - 1) :
                              NumberedBackup(base, c.backup_suffix, m) \in files

\* C26: create_backup never overwrites an existing file: it copies to
\* '<file><suffix>' if that name is free, else to '<file><suffix>.<n>' for
\* the smallest n >= 1 whose name is free; after any sequence of calls the
\* returned backup paths are pairwise distinct and every backup still
\* exists; for a missing path or a non-file it returns None and creates
\* nothing.
C26_NeverOverwrites == [](C26_BackupsKept) /\ [][C26_CallEffect]_vars

C26_Witness ==
    /\ Cardinality(Backed) >= 2
    /\ \E i \in Backed : backups[i].returned = "/data/notes.txt.bak.3"
    /\ \E i \in DOMAIN backups :
          backups[i].file_path = BackupDir /\ backups[i].returned = None

====
